---- MODULE Spec2Model ----
(***************************************************************************)
(* MindCanvas Teacher Actions (src/main.py): a FastAPI service with seven  *)
(* POST routes behind an X-API-Key gate and one open GET route.            *)
(*                                                                         *)
(* One request is in flight at a time.  A route action receives a request  *)
(* (header and body drawn from bounded sets) and runs it through the whole *)
(* request pipeline up to the response.  Retry re-submits the identical    *)
(* request to the same process, Complete ends the exchange, Tick advances  *)
(* the wall clock read by now_iso().                                       *)
(*                                                                         *)
(* Encodings.  Optional[T] is a sequence of length <= 1: None is <<>> and  *)
(* a given value v is <<v>>.  Python floats are modelled by exact integers *)
(* and rationals [num, den]; the inputs are small enough for float         *)
(* arithmetic to agree with the exact value at three decimals.             *)
(***************************************************************************)
EXTENDS Integers, Sequences, FiniteSets, TLC

VARIABLES API_KEY, clock, pc, req, resp, stages, servedAt, first, firstAt

vars == <<API_KEY, clock, pc, req, resp, stages, servedAt, first, firstAt>>

None == <<>>

Some(v) == <<v>>

Opt(S) == {None} \cup {Some(v) : v \in S}

SeqsUpTo(S, n) == UNION {[1..k -> S] : k \in 0..n}

\* Python truthiness of an Optional value: None is falsy, and so are the
\* number 0, the string "" and the list [].
TruthyNum(o) == o # None /\ o[1] # 0

TruthyStr(o) == o # None /\ o[1] # ""

TruthyList(o) == o # None /\ o[1] # <<>>

(***************************************************************************)
(* Bounds of the model.                                                    *)
(***************************************************************************)
MaxTypes == 2

MaxNumQ == 3

MaxOver == 2

MaxCriteria == 1

MaxLevels == 2

MaxObjectives == 2

MaxBlocks == 4

MaxEntries == 2

MaxResponses == 2

(***************************************************************************)
(* Program constants.                                                      *)
(***************************************************************************)
DefaultKey == "dev-key-change-me"

MinDuration == 15

MinQuestions == 1

MaxQuestions == 50

FixedMinutes == 45

MaxProposals == 3

DetailedLen == 50

Decimals == 1000

(***************************************************************************)
(* Security: require_api_key.  TRUE is the `return True`, FALSE the raised *)
(* HTTPException(401).                                                     *)
(***************************************************************************)
require_api_key_eq_only(x_api_key, key) ==
    ~(x_api_key = None \/ x_api_key[1] # key)

require_api_key(x_api_key, key) ==
    ~(~TruthyStr(x_api_key) \/ x_api_key[1] # key)

\* now_iso(): the wall clock, as an instant number.
now_iso == clock

(***************************************************************************)
(* Handler results: a returned value or a raised exception.                *)
(***************************************************************************)
Return(v) == [raised |-> FALSE, value |-> v]

Raise(e) == [raised |-> TRUE, value |-> e]

NoResp == [status |-> 0, body |-> [detail |-> "none"]]

NoReq == [route |-> "none"]

(***************************************************************************)
(* Exact rationals for the float ratios of track_student_progress.         *)
(***************************************************************************)
Rat(n, d) == [num |-> n, den |-> d]

RatAdd(a, b) == Rat(a.num * b.den + b.num * a.den, a.den * b.den)

RatEq(a, b) == a.num * b.den = b.num * a.den

RECURSIVE RatSum(_)
RatSum(v) == IF v = <<>> THEN Rat(0, 1) ELSE RatAdd(v[1], RatSum(Tail(v)))

\* Nearest integer to n / d (d > 0), an exact half going to the even neighbour.
RoundHalfEven(n, d) ==
    LET q == n \div d
        r == n % d
    IN  IF 2 * r < d THEN q
        ELSE IF 2 * r > d THEN q + 1
        ELSE IF q % 2 = 0 THEN q ELSE q + 1

RoundDown(x, scale) == Rat((scale * x.num) \div x.den, scale)

\* round(x, 3) for scale = 1000.
Round(x, scale) == Rat(RoundHalfEven(scale * x.num, x.den), scale)

(***************************************************************************)
(* Request models (pydantic).  Each predicate is the validation of a       *)
(* decoded JSON object whose fields have the declared Python types.        *)
(***************************************************************************)
QuestionTypes == {"mcq", "true_false", "short_answer"}

Frameworks == {"CCSS", "NGSS", "TEKS", "CA-ELA", "CA-Math", "Other"}

Modalities == {"in_person", "zoom", "phone"}

Range(s) == {s[i] : i \in DOMAIN s}

LessonPlanReq(b) == b.duration_minutes >= MinDuration

QuizReq(b) ==
    /\ Range(b.question_types) \subseteq QuestionTypes
    /\ b.num_questions >= MinQuestions
    /\ b.num_questions <= MaxQuestions

RubricCriterion(c) == c.weight = None \/ c.weight[1] >= 0

GradeWithRubricReq(b) == \A i \in DOMAIN b.rubric : RubricCriterion(b.rubric[i])

MapObjectivesReq(b) ==
    b.frameworks = None \/ Range(b.frameworks[1]) \subseteq Frameworks

ScheduleConferenceReq(b) ==
    b.preferred_modalities = None
        \/ Range(b.preferred_modalities[1]) \subseteq Modalities

ProgressEntry(e) == e.score >= 0 /\ e.max_score > 0

TrackProgressReq(b) == \A i \in DOMAIN b.entries : ProgressEntry(b.entries[i])

AnalyzeExitReq(b) ==
    /\ b.num_groups = None \/ (b.num_groups[1] >= 2 /\ b.num_groups[1] <= 8)
    /\ b.return_exemplars_per_group = None
        \/ (b.return_exemplars_per_group[1] >= 0
                /\ b.return_exemplars_per_group[1] <= 5)

(***************************************************************************)
(* Helpers and endpoints.                                                  *)
(***************************************************************************)
QId(i) == "Q" \o ToString(i + 1)

simple_mcq_answer_b(i, topic) ==
    [id |-> QId(i), type |-> "mcq",
     stem |-> "Which statement about " \o topic \o " is correct?",
     choices |-> <<"A", "B", "C", "D">>, answer |-> "B"]

simple_mcq(i, topic) ==
    [id |-> QId(i), type |-> "mcq",
     stem |-> "Which statement about " \o topic \o " is correct?",
     choices |-> <<"A", "B", "C", "D">>, answer |-> "A"]

create_lesson_plan(body) ==
    Return([lesson_plan |->
      [meta |-> [generated_at |-> now_iso,
                 subject |-> body.subject,
                 grade_level |-> body.grade_level,
                 duration_minutes |-> body.duration_minutes,
                 standards |-> IF TruthyList(body.standards)
                                 THEN body.standards[1] ELSE <<>>],
       objectives |-> IF TruthyList(body.learning_objectives)
                        THEN body.learning_objectives[1]
                        ELSE <<"Students will ...">>,
       materials |-> <<"Projector", "Slides", "Handout">>,
       sequence |-> <<
          [phase |-> "Do Now", minutes |-> 5, activity |-> "Warm-up prompt"],
          [phase |-> "Mini-lesson", minutes |-> 15,
           activity |-> "Direct instruction"],
          [phase |-> "Guided Practice", minutes |-> 20,
           activity |-> "Partner work"],
          [phase |-> "Independent Practice",
           minutes |-> body.duration_minutes - FixedMinutes,
           activity |-> "Task"],
          [phase |-> "Exit Ticket", minutes |-> 5, activity |-> "Quick check"]>>,
       assessment |-> [type |-> "exit_ticket",
                       criteria |-> <<"Accuracy", "Reasoning">>],
       differentiation |->
          [enabled |-> (body.differentiation # None /\ body.differentiation[1]),
           notes |-> "Scaffolds and extensions suggested."]]])

\* question_types[i % len(question_types)]
QuestionType(body, i) == body.question_types[(i % Len(body.question_types)) + 1]

\* What iteration i of the for loop appends to qs ...
Question(body, i) ==
    LET qt == QuestionType(body, i)
    IN  IF qt = "mcq" THEN simple_mcq(i, body.topic)
        ELSE IF qt = "true_false"
          THEN [id |-> QId(i), type |-> "true_false",
                stem |-> body.topic \o ": True or False?", answer |-> TRUE]
        ELSE [id |-> QId(i), type |-> "short_answer",
              stem |-> "Briefly explain " \o body.topic \o "."]

\* ... and to ak.
Answer(body, i) ==
    LET qt == QuestionType(body, i)
    IN  IF qt = "mcq" THEN simple_mcq(i, body.topic).answer
        ELSE IF qt = "true_false" THEN "True"
        ELSE "<free-response>"

\* The for loop of generate_quiz run on the lists qs and ak.  The first
\* iteration raises on an empty question_types (i % 0).
QuizLoop(body, qs, ak) ==
    IF body.num_questions > 0 /\ Len(body.question_types) = 0
      THEN Raise("ZeroDivisionError")
      ELSE LET n == IF body.num_questions > 0 THEN body.num_questions ELSE 0
           IN  Return([questions |-> qs \o [k \in 1..n |-> Question(body, k - 1)],
                       answer_key |-> ak \o [k \in 1..n |-> Answer(body, k - 1)]])

\* A handler whose lists outlive the call: it goes on from the lists of the
\* response it produced last.
generate_quiz_shared_lists(body) ==
    IF resp.status = 200 /\ req.route = "/generate-quiz"
      THEN QuizLoop(body, resp.body.questions, resp.body.answer_key)
      ELSE QuizLoop(body, <<>>, <<>>)

generate_quiz(body) == QuizLoop(body, <<>>, <<>>)

\* max(levels, key=points) over a non-empty list: the first level whose points
\* no later level exceeds strictly.
RECURSIVE MaxLevel(_, _)
MaxLevel(levels, best) ==
    IF levels = <<>> THEN best
    ELSE MaxLevel(Tail(levels),
                  IF levels[1].points > best.points THEN levels[1] ELSE best)

\* The for loop of grade_with_rubric over the criteria not yet graded.
RECURSIVE RubricLoop(_, _, _)
RubricLoop(rubric, total, details) ==
    IF rubric = <<>> THEN Return([total |-> total, details |-> details])
    ELSE LET c == rubric[1]
         IN  IF c.levels = <<>> THEN Raise("ValueError")
             ELSE LET top == MaxLevel(Tail(c.levels), c.levels[1])
                      pts == top.points * (IF TruthyNum(c.weight)
                                             THEN c.weight[1] ELSE 1)
                  IN  RubricLoop(Tail(rubric), total + pts,
                        Append(details, [criterion |-> c.criterion,
                                         selected_level |-> top.label,
                                         points_awarded |-> pts]))

Min(a, b) == IF a <= b THEN a ELSE b

grade_with_rubric(body) ==
    LET r == RubricLoop(body.rubric, 0, <<>>)
    IN  IF r.raised THEN r
        ELSE Return(
          [total_points |-> IF TruthyNum(body.max_total_points)
                              THEN Min(r.value.total, body.max_total_points[1])
                              ELSE r.value.total,
           criteria |-> r.value.details,
           feedback |-> "Good structure; consider adding more specific evidence."])

map_objectives_to_standards(body) ==
    LET fw == IF TruthyList(body.frameworks) THEN body.frameworks[1]
                                             ELSE <<"CCSS">>
    IN  Return([mappings |->
          [i \in DOMAIN body.objectives |->
             [objective |-> body.objectives[i], framework |-> fw[1],
              suggested_standard |-> "RL.5.2", confidence |-> Rat(72, 100)]]])

\* "sep".join(strs)
RECURSIVE Join(_, _)
Join(strs, sep) ==
    IF strs = <<>> THEN ""
    ELSE IF Len(strs) = 1 THEN strs[1]
    ELSE strs[1] \o sep \o Join(Tail(strs), sep)

schedule_parent_conference(body) ==
    LET blocks == SubSeq(body.teacher_availability_blocks, 1,
                         Min(MaxProposals, Len(body.teacher_availability_blocks)))
        mods == IF TruthyList(body.preferred_modalities)
                  THEN body.preferred_modalities[1] ELSE <<"zoom">>
        proposals == [i \in DOMAIN blocks |->
                        [start_iso |-> blocks[i].start_iso,
                         end_iso |-> blocks[i].end_iso,
                         modality |-> mods[1]]]
        lines == [i \in DOMAIN proposals |->
                    "- " \o proposals[i].start_iso \o " to "
                         \o proposals[i].end_iso
                         \o " (" \o proposals[i].modality \o ")"]
    IN  Return([proposals |-> proposals,
                invite_draft |->
                  "Hello " \o Join(body.guardians, ", ") \o ",\n\n"
                  \o "I'd like to meet regarding " \o body.student_name
                  \o ". Here are some proposed times:\n"
                  \o Join(lines, "\n") \o "\n\nBest,\nMindCanvas"])

\* by_std after the for loop of track_student_progress: the standards in
\* first-seen order, each with the list of its ratios.
RECURSIVE ProgressLoop(_, _)
ProgressLoop(entries, by_std) ==
    IF entries = <<>> THEN Return(by_std)
    ELSE LET e == entries[1]
         IN  IF e.max_score = 0 THEN Raise("ZeroDivisionError")
             ELSE LET pct == Rat(e.score, e.max_score)
                      known == \E k \in DOMAIN by_std : by_std[k].standard = e.standard
                      next == IF known
                                THEN [k \in DOMAIN by_std |->
                                        IF by_std[k].standard = e.standard
                                          THEN [by_std[k] EXCEPT !.v = Append(@, pct)]
                                          ELSE by_std[k]]
                                ELSE Append(by_std, [standard |-> e.standard,
                                                     v |-> <<pct>>])
                  IN  ProgressLoop(Tail(entries), next)

track_student_progress(body) ==
    LET r == ProgressLoop(body.entries, <<>>)
    IN  IF r.raised THEN r
        ELSE Return([mastery |->
               [k \in DOMAIN r.value |->
                  LET v == r.value[k].v
                      sum == RatSum(v)
                  IN  [standard |-> r.value[k].standard,
                       avg_mastery |-> Round(Rat(sum.num, sum.den * Len(v)), Decimals),
                       samples |-> Len(v)]]])

analyze_exit_tickets(body) ==
    Return([groups |-> <<
              [group |-> 1, label |-> "Concise",
               responses |-> SelectSeq(body.responses,
                                       LAMBDA r : Len(r) < DetailedLen)],
              [group |-> 2, label |-> "Detailed",
               responses |-> SelectSeq(body.responses,
                                       LAMBDA r : Len(r) >= DetailedLen)]>>,
            misconceptions |-> <<"Confuses chlorophyll with sugar synthesis">>])

root ==
    Return([status |-> "ok", service |-> "MindCanvas Teacher Actions",
            time |-> now_iso])

(***************************************************************************)
(* The application: routes, their request models and their endpoints.      *)
(***************************************************************************)
ProtectedRoutes ==
    {"/create-lesson-plan", "/generate-quiz", "/grade-with-rubric",
     "/map-objectives-to-standards", "/schedule-parent-conference",
     "/track-student-progress", "/analyze-exit-tickets"}

\* Validation of the decoded body against the model the route declares.
BodyModel(route, b) ==
    CASE route = "/create-lesson-plan" -> LessonPlanReq(b)
      [] route = "/generate-quiz" -> QuizReq(b)
      [] route = "/grade-with-rubric" -> GradeWithRubricReq(b)
      [] route = "/map-objectives-to-standards" -> MapObjectivesReq(b)
      [] route = "/schedule-parent-conference" -> ScheduleConferenceReq(b)
      [] route = "/track-student-progress" -> TrackProgressReq(b)
      [] route = "/analyze-exit-tickets" -> AnalyzeExitReq(b)

Endpoint(route, b) ==
    CASE route = "/create-lesson-plan" -> create_lesson_plan(b)
      [] route = "/generate-quiz" -> generate_quiz(b)
      [] route = "/grade-with-rubric" -> grade_with_rubric(b)
      [] route = "/map-objectives-to-standards" -> map_objectives_to_standards(b)
      [] route = "/schedule-parent-conference" -> schedule_parent_conference(b)
      [] route = "/track-student-progress" -> track_student_progress(b)
      [] route = "/analyze-exit-tickets" -> analyze_exit_tickets(b)

Reply(code, body, done) == [status |-> code, body |-> body, stages |-> done]

Unauthorized == [detail |-> "Invalid or missing API key"]

Unprocessable == [detail |-> "validation error"]

ServerError == [detail |-> "Internal Server Error"]

RunEndpoint(r, done) ==
    LET out == Endpoint(r.route, r.body)
    IN  IF out.raised THEN Reply(500, ServerError, Append(done, "endpoint"))
                      ELSE Reply(200, out.value, Append(done, "endpoint"))

\* The request model applied before the dependency.
HandleValidateFirst(r, key) ==
    IF r.route = "/"
      THEN Reply(200, root.value, <<"endpoint">>)
    ELSE IF ~r.body.json
      THEN Reply(422, Unprocessable, <<"decode">>)
    ELSE IF ~BodyModel(r.route, r.body)
      THEN Reply(422, Unprocessable, <<"decode", "validate">>)
    ELSE IF ~require_api_key(r.header, key)
      THEN Reply(401, Unauthorized, <<"decode", "validate", "dependency">>)
    ELSE RunEndpoint(r, <<"decode", "validate", "dependency">>)

\* How the application serves one request to a route declared
\*   @app.post(path, response_model=..., dependencies=[Depends(require_api_key)])
\*   def endpoint(body: Model)
\* The body bytes are decoded as JSON (a decode error is a 422), then the
\* dependency runs (its HTTPException is the response), then the decoded body
\* is validated against Model (422), then the endpoint is called (an exception
\* it raises is a 500).  GET / declares neither a body nor a dependency.
Handle(r, key) ==
    IF r.route = "/"
      THEN Reply(200, root.value, <<"endpoint">>)
    ELSE IF ~r.body.json
      THEN Reply(422, Unprocessable, <<"decode">>)
    ELSE IF ~require_api_key(r.header, key)
      THEN Reply(401, Unauthorized, <<"decode", "dependency">>)
    ELSE IF ~BodyModel(r.route, r.body)
      THEN Reply(422, Unprocessable, <<"decode", "dependency", "validate">>)
    ELSE RunEndpoint(r, <<"decode", "dependency", "validate">>)

(***************************************************************************)
(* Inputs: the secrets the process may be configured with, and the         *)
(* headers and bodies a client may send.                                   *)
(***************************************************************************)
Secrets == {"", DefaultKey}

Headers == {None, Some(""), Some(DefaultKey)}

Instants == {0, 1}

\* Body bytes that do not decode as JSON (a POST sent as JSON whose text is not
\* well-formed); GET / carries none.
Malformed == [json |-> FALSE]

LessonBodies ==
    {[json |-> TRUE, subject |-> "Science", grade_level |-> "5",
      standards |-> s, duration_minutes |-> d,
      learning_objectives |-> o, differentiation |-> f] :
        s \in Opt(SeqsUpTo({"NGSS.5-LS1-1"}, 1)),
        d \in (MinDuration - 1)..(FixedMinutes + MaxOver),
        o \in Opt(SeqsUpTo({"Explain photosynthesis"}, 1)),
        f \in Opt(BOOLEAN)}

QuizBodies ==
    {[json |-> TRUE, topic |-> "photosynthesis", question_types |-> t,
      num_questions |-> n] :
        t \in SeqsUpTo(QuestionTypes \cup {"essay"}, MaxTypes),
        n \in (0..MaxNumQ) \cup {MaxQuestions, MaxQuestions + 1}}

PointVals == {-1, 4}

\* Level lists; the level at position i is labelled "L<i>".
LevelLists ==
    UNION {{[i \in 1..k |-> [label |-> "L" \o ToString(i), points |-> f[i]]] :
              f \in [1..k -> PointVals]} : k \in 0..MaxLevels}

Criteria ==
    {[criterion |-> "Clarity", levels |-> l, weight |-> w] :
        l \in LevelLists, w \in Opt({-1, 0, 2})}

RubricBodies ==
    {[json |-> TRUE, rubric |-> r, student_response |-> "...",
      max_total_points |-> m] :
        r \in SeqsUpTo(Criteria, MaxCriteria), m \in Opt({0, 3})}

MapBodies ==
    {[json |-> TRUE, frameworks |-> f, objectives |-> o] :
        f \in {None, Some(<<>>), Some(<<"NGSS">>), Some(<<"TEKS", "CCSS">>),
               Some(<<"XYZ">>)},
        o \in SeqsUpTo({"Summarize a text", "Compare fractions"}, MaxObjectives)}

Blocks ==
    {[start_iso |-> "2025-01-06T15:00", end_iso |-> "2025-01-06T15:30"],
     [start_iso |-> "2025-01-07T08:00", end_iso |-> "2025-01-07T08:30"]}

ScheduleBodies ==
    {[json |-> TRUE, student_name |-> "Sam", guardians |-> g,
      preferred_modalities |-> m, teacher_availability_blocks |-> b] :
        g \in {<<>>, <<"Ana">>, <<"Ana", "Ben">>},
        m \in {None, Some(<<>>), Some(<<"phone", "zoom">>), Some(<<"fax">>)},
        b \in SeqsUpTo(Blocks, MaxBlocks)}

Entries ==
    {[date |-> "2025-01-06", standard |-> s, score |-> x, max_score |-> y] :
        s \in {"RL.5.2", "RI.5.1"}, x \in {-1, 1, 2}, y \in {0, 1, 3}}

ProgressBodies ==
    {[json |-> TRUE, student_id |-> "s1", entries |-> e] :
        e \in SeqsUpTo(Entries, MaxEntries)}

Responses ==
    {"Plants make food.",
     "Plants use sunlight, water and air to make sugar.",
     "Plants use sunlight, water and air to make sugars."}

ExitBodies ==
    {[json |-> TRUE, prompt |-> "How do plants make food?", responses |-> r,
      num_groups |-> n, return_exemplars_per_group |-> x] :
        r \in SeqsUpTo(Responses, MaxResponses),
        n \in Opt({1, 3, 9}), x \in Opt({1, 6})}

(***************************************************************************)
(* State machine.                                                          *)
(***************************************************************************)
Init ==
    /\ API_KEY \in Secrets
    /\ clock = 0
    /\ pc = "idle"
    /\ req = NoReq
    /\ resp = NoResp
    /\ stages = <<>>
    /\ servedAt = 0
    /\ first = NoResp
    /\ firstAt = 0

\* The process serves request r and the response is on its way.
Serve(r) ==
    LET out == Handle(r, API_KEY)
    IN  /\ req' = r
        /\ resp' = [status |-> out.status, body |-> out.body]
        /\ stages' = out.stages
        /\ servedAt' = clock
        /\ UNCHANGED <<API_KEY, clock>>

\* A request arrives at an idle process and is served.
Receive(r) ==
    /\ Serve(r)
    /\ pc' = "done"
    /\ UNCHANGED <<first, firstAt>>

CreateLessonPlan ==
    /\ pc = "idle"
    /\ \E h \in Headers, b \in LessonBodies \cup {Malformed} :
          Receive([route |-> "/create-lesson-plan", header |-> h, body |-> b])

GenerateQuiz ==
    /\ pc = "idle"
    /\ \E h \in Headers, b \in QuizBodies \cup {Malformed} :
          Receive([route |-> "/generate-quiz", header |-> h, body |-> b])

GradeWithRubric ==
    /\ pc = "idle"
    /\ \E h \in Headers, b \in RubricBodies \cup {Malformed} :
          Receive([route |-> "/grade-with-rubric", header |-> h, body |-> b])

MapObjectivesToStandards ==
    /\ pc = "idle"
    /\ \E h \in Headers, b \in MapBodies \cup {Malformed} :
          Receive([route |-> "/map-objectives-to-standards", header |-> h, body |-> b])

ScheduleParentConference ==
    /\ pc = "idle"
    /\ \E h \in Headers, b \in ScheduleBodies \cup {Malformed} :
          Receive([route |-> "/schedule-parent-conference", header |-> h, body |-> b])

TrackStudentProgress ==
    /\ pc = "idle"
    /\ \E h \in Headers, b \in ProgressBodies \cup {Malformed} :
          Receive([route |-> "/track-student-progress", header |-> h, body |-> b])

AnalyzeExitTickets ==
    /\ pc = "idle"
    /\ \E h \in Headers, b \in ExitBodies \cup {Malformed} :
          Receive([route |-> "/analyze-exit-tickets", header |-> h, body |-> b])

Root ==
    /\ pc = "idle"
    /\ \E h \in Headers :
          Receive([route |-> "/", header |-> h, body |-> Malformed])

\* The client sends the identical request again.
Retry ==
    /\ pc = "done"
    /\ first' = resp
    /\ firstAt' = servedAt
    /\ Serve(req)
    /\ pc' = "retried"

\* The exchange is over; nothing of it is kept.
Complete ==
    /\ pc \in {"done", "retried"}
    /\ pc' = "idle"
    /\ req' = NoReq
    /\ resp' = NoResp
    /\ stages' = <<>>
    /\ servedAt' = 0
    /\ first' = NoResp
    /\ firstAt' = 0
    /\ UNCHANGED <<API_KEY, clock>>

\* The wall clock advances.
Tick ==
    /\ clock + 1 \in Instants
    /\ clock' = clock + 1
    /\ UNCHANGED <<API_KEY, pc, req, resp, stages, servedAt, first, firstAt>>

Next ==
    \/ CreateLessonPlan
    \/ GenerateQuiz
    \/ GradeWithRubric
    \/ MapObjectivesToStandards
    \/ ScheduleParentConference
    \/ TrackStudentProgress
    \/ AnalyzeExitTickets
    \/ Root
    \/ Retry
    \/ Complete
    \/ Tick

Spec == Init /\ [][Next]_vars

(***************************************************************************)
(* Properties.                                                             *)
(***************************************************************************)
Answered == pc \in {"done", "retried"}

Protected == req.route \in ProtectedRoutes

EndpointRan == "endpoint" \in Range(stages)

GateRan == "dependency" \in Range(stages)

\* The request went through the gate and through validation.
Accepted(route) ==
    /\ Answered
    /\ req.route = route
    /\ req.body.json
    /\ require_api_key(req.header, API_KEY)
    /\ BodyModel(route, req.body)

\* C1 (as amended): on a protected route the gate succeeds exactly when the
\* X-API-Key header is present, non-empty and equal to API_KEY; otherwise the
\* response is the 401 "Invalid or missing API key".
C1_GateNonEmptyEqual ==
    (Answered /\ Protected /\ GateRan) =>
        /\ (resp.status # 401) <=>
              (req.header # None /\ req.header[1] # "" /\ req.header[1] = API_KEY)
        /\ resp.status = 401 => resp.body = Unauthorized

\* C1 (as stated): the gate succeeds exactly when the header is present and
\* equal to API_KEY, for every secret, the empty string included.
C1_GatePresentEqual ==
    (Answered /\ Protected /\ GateRan) =>
        ((resp.status # 401) <=> (req.header # None /\ req.header[1] = API_KEY))

C1_Witness ==
    /\ Answered /\ Protected /\ GateRan
    /\ API_KEY = "" /\ req.header = Some("")
    /\ resp.status = 401

BadKey == req.header = None \/ req.header[1] # API_KEY

\* C2 (as amended): on a protected route a request whose key is missing or
\* wrong never reaches the endpoint; it is answered 401 when its body decodes
\* as JSON, valid for the route's model or not, and 422 when it does not.
C2_BadKeyNeverRuns ==
    (Answered /\ Protected /\ BadKey) =>
        /\ ~EndpointRan
        /\ req.body.json => resp.status = 401
        /\ ~req.body.json => resp.status = 422

\* C2 (as stated): a request whose key is missing or wrong is answered 401
\* whatever its body is, and never reaches the endpoint.
C2_BadKeyAlways401 ==
    (Answered /\ Protected /\ BadKey) => (resp.status = 401 /\ ~EndpointRan)

C2_Witness ==
    /\ Answered /\ Protected /\ BadKey
    /\ req.body.json /\ ~BodyModel(req.route, req.body)
    /\ resp.status = 401 /\ ~EndpointRan

\* C3: every accepted QuizReq is answered with exactly num_questions
\* questions and an answer key of the same length.
C3_QuizCount ==
    Accepted("/generate-quiz") =>
        /\ resp.status = 200
        /\ Len(resp.body.questions) = req.body.num_questions
        /\ Len(resp.body.answer_key) = Len(resp.body.questions)

\* C4: total_points is non-negative and, whenever max_total_points is given
\* (0 included), at most max_total_points.
C4_TotalBounded ==
    (Accepted("/grade-with-rubric") /\ resp.status = 200) =>
        /\ resp.body.total_points >= 0
        /\ req.body.max_total_points # None =>
              resp.body.total_points <= req.body.max_total_points[1]

GroupOf(s) == {i \in DOMAIN req.body.entries : req.body.entries[i].standard = s}

RECURSIVE RatioSum(_)
RatioSum(I) ==
    IF I = {} THEN Rat(0, 1)
    ELSE LET i == CHOOSE j \in I : TRUE
         IN  RatAdd(Rat(req.body.entries[i].score, req.body.entries[i].max_score),
                    RatioSum(I \ {i}))

\* The exact mean of score / max_score over the entries of standard s.
MeanOf(s) ==
    LET t == RatioSum(GroupOf(s))
    IN  Rat(t.num, t.den * Cardinality(GroupOf(s)))

Abs(x) == IF x < 0 THEN -x ELSE x

\* C5 (as amended): each mastery record counts the entries of its standard in
\* samples, and its avg_mastery is their mean ratio rounded to three decimals:
\* a multiple of 0.001 no further than 0.0005 from the exact mean.
C5_MeanRounded ==
    (Accepted("/track-student-progress") /\ resp.status = 200) =>
        \A k \in DOMAIN resp.body.mastery :
            LET m == resp.body.mastery[k]
                mean == MeanOf(m.standard)
            IN  /\ m.samples = Cardinality(GroupOf(m.standard))
                /\ m.samples > 0
                /\ m.avg_mastery.den = Decimals
                /\ 2 * Abs(m.avg_mastery.num * mean.den - Decimals * mean.num)
                       <= mean.den

\* C5 (as stated): avg_mastery equals the arithmetic mean itself.
C5_MeanExact ==
    (Accepted("/track-student-progress") /\ resp.status = 200) =>
        \A k \in DOMAIN resp.body.mastery :
            LET m == resp.body.mastery[k]
            IN  /\ m.samples = Cardinality(GroupOf(m.standard))
                /\ RatEq(m.avg_mastery, MeanOf(m.standard))

C5_Witness ==
    /\ Accepted("/track-student-progress") /\ resp.status = 200
    /\ \E k \in DOMAIN resp.body.mastery :
          /\ resp.body.mastery[k].samples >= 2
          /\ ~RatEq(resp.body.mastery[k].avg_mastery,
                    MeanOf(resp.body.mastery[k].standard))

\* C6: an authorized quiz request with an empty question_types, and an
\* authorized grading request with a criterion without levels, are answered
\* 422 before the endpoint runs, and neither route ever answers 500.
C6_NonEmptyEnforced ==
    (Answered /\ req.route \in {"/generate-quiz", "/grade-with-rubric"}
              /\ req.body.json /\ require_api_key(req.header, API_KEY)) =>
        /\ (req.route = "/generate-quiz" /\ req.body.question_types = <<>>)
              => (resp.status = 422 /\ ~EndpointRan)
        /\ (req.route = "/grade-with-rubric"
               /\ \E i \in DOMAIN req.body.rubric : req.body.rubric[i].levels = <<>>)
              => (resp.status = 422 /\ ~EndpointRan)
        /\ resp.status # 500

FirstMax(levels) ==
    levels[CHOOSE i \in DOMAIN levels :
             /\ \A j \in DOMAIN levels : levels[j].points <= levels[i].points
             /\ \A j \in 1..(i - 1) : levels[j].points < levels[i].points]

RECURSIVE SumAwarded(_)
SumAwarded(details) ==
    IF details = <<>> THEN 0
    ELSE details[1].points_awarded + SumAwarded(Tail(details))

\* C8: one detail per criterion in rubric order; it selects the first level of
\* maximal points and awards its points times the weight given (0 included),
\* times 1 only when no weight is given; the unclamped total is their sum.
C8_RubricDetails ==
    (Accepted("/grade-with-rubric") /\ resp.status = 200) =>
        /\ Len(resp.body.criteria) = Len(req.body.rubric)
        /\ \A i \in DOMAIN req.body.rubric :
              LET c == req.body.rubric[i]
                  d == resp.body.criteria[i]
              IN  /\ d.criterion = c.criterion
                  /\ d.selected_level = FirstMax(c.levels).label
                  /\ d.points_awarded =
                       FirstMax(c.levels).points
                         * (IF c.weight = None THEN 1 ELSE c.weight[1])
        /\ req.body.max_total_points = None =>
              resp.body.total_points = SumAwarded(resp.body.criteria)

\* C9: question i (from 0) has type question_types[i mod len] and id
\* "Q<i+1>", and answer_key[i] is "A" for mcq, "True" for true_false and
\* "<free-response>" for short_answer.
C9_QuizParallel ==
    (Accepted("/generate-quiz") /\ resp.status = 200) =>
        \A i \in 0..(req.body.num_questions - 1) :
            LET t == req.body.question_types[(i % Len(req.body.question_types)) + 1]
            IN  /\ i + 1 \in DOMAIN resp.body.questions
                /\ i + 1 \in DOMAIN resp.body.answer_key
                /\ resp.body.questions[i + 1].type = t
                /\ resp.body.questions[i + 1].id = "Q" \o ToString(i + 1)
                /\ resp.body.answer_key[i + 1] =
                      (CASE t = "mcq" -> "A"
                         [] t = "true_false" -> "True"
                         [] t = "short_answer" -> "<free-response>")

C9_Witness ==
    /\ Accepted("/generate-quiz") /\ resp.status = 200
    /\ req.body.question_types = <<"mcq", "short_answer">>
    /\ req.body.num_questions = 3
    /\ resp.body.answer_key = <<"A", "<free-response>", "A">>

\* C10: an accepted LessonPlanReq is answered either with a validation error
\* or with the five phases 5, 15, 20, a non-negative Independent Practice, 5.
C10_NoNegativeMinutes ==
    (Answered /\ req.route = "/create-lesson-plan" /\ req.body.json
              /\ require_api_key(req.header, API_KEY)
              /\ req.body.duration_minutes >= MinDuration) =>
        \/ resp.status = 422
        \/ /\ resp.status = 200
           /\ LET seq == resp.body.lesson_plan.sequence
              IN  /\ Len(seq) = 5
                  /\ seq[1].phase = "Do Now" /\ seq[1].minutes = 5
                  /\ seq[2].phase = "Mini-lesson" /\ seq[2].minutes = 15
                  /\ seq[3].phase = "Guided Practice" /\ seq[3].minutes = 20
                  /\ seq[4].phase = "Independent Practice" /\ seq[4].minutes >= 0
                  /\ seq[5].phase = "Exit Ticket" /\ seq[5].minutes = 5

====
